---- MODULE Spec2Model ----
(***************************************************************************)
(* Asynchronous notification system: the FastAPI ingestion endpoint        *)
(* (src/src/main.py), the in-memory status store (src/src/persistence.py), *)
(* the RabbitMQ gateway (src/src/rabbitmq_service.py), the payload model   *)
(* (src/src/models.py) and the four queue consumers (src/src/consumers.py).*)
(* Handlers are coroutines on one event loop: every `await` of broker I/O  *)
(* is a suspension point, so a handler is a sequence of atomic steps, one  *)
(* per stretch of code between two awaits.                                 *)
(***************************************************************************)
EXTENDS Integers, Sequences, FiniteSets, TLC

\* ------------------------------------------------------------------ bounds
MaxRequests == 2      \* HTTP POST requests issued in one run
MaxConns    == 2      \* broker connections a run may open
MaxExternal == 2      \* messages other producers put on the declared queues

Requests == 1..MaxRequests

\* ------------------------------------------------------------ value model
\* Python values that flow through the handlers: None, a uuid.UUID, the str()
\* of either, and JSON null.  A UUID is identified by a number.
None       == [kind |-> "None", n |-> 0]
UUID(k)    == [kind |-> "UUID", n |-> k]
JsonNull   == [kind |-> "null", n |-> 0]

\* str(x) as main.py applies it to trace_id and payload.mensagemId:
\* str(UUID) is the canonical text of the UUID, str(None) is the text "None".
str(v) == IF v.kind = "UUID" THEN [kind |-> "str_uuid", n |-> v.n]
          ELSE [kind |-> "str_None", n |-> 0]

\* FastAPI's JSON encoding of a response value: a UUID becomes its canonical
\* text, None becomes null.
jsonable(v) == IF v.kind = "UUID" THEN [kind |-> "str_uuid", n |-> v.n]
               ELSE JsonNull

\* uuid.uuid4() for the traceId of request r and for a defaulted mensagemId:
\* fresh on every call, never equal to a client-supplied identifier.
ClientUUID      == UUID(100)
uuid4_trace(r)  == UUID(r)
uuid4_msg(r)    == UUID(50 + r)

\* --------------------------------------------------------------- strings
\* tipoNotificacao is text whose letters matter: a sequence of characters.
UpperOf == [c \in {"a","e","f","h","i","l","m","p","s","u","x",
                   "A","E","F","H","I","L","M","P","S","U","X"} |->
            CASE c = "a" -> "A" [] c = "e" -> "E" [] c = "f" -> "F"
              [] c = "h" -> "H" [] c = "i" -> "I" [] c = "l" -> "L"
              [] c = "m" -> "M" [] c = "p" -> "P" [] c = "s" -> "S"
              [] c = "u" -> "U" [] c = "x" -> "X" [] OTHER -> c]

\* str.upper()
upper(s) == [i \in 1..Len(s) |-> UpperOf[s[i]]]

EMAIL == <<"E","M","A","I","L">>
SMS   == <<"S","M","S">>
PUSH  == <<"P","U","S","H">>

allowed_types == {EMAIL, SMS, PUSH}

\* ------------------------------------------------------------- payloads
\* A request body as FastAPI receives it.  has* says whether the JSON object
\* carries the key; mid is "absent", "null" or "given" (a valid UUID).
Payload(hc, c, ht, t, m) ==
    [hasConteudo |-> hc, conteudoMensagem |-> c,
     hasTipo |-> ht, tipoNotificacao |-> t, mid |-> m]

Payloads ==
    { Payload(TRUE,  "Hello", TRUE,  <<"e","m","a","i","l">>, "absent"),
      Payload(TRUE,  "Hello", TRUE,  EMAIL,                   "given"),
      Payload(TRUE,  "",      TRUE,  <<"S","m","s">>,         "absent"),
      Payload(TRUE,  "Hi",    TRUE,  <<"p","u","s","h">>,     "null"),
      Payload(TRUE,  "Hello", TRUE,  <<"F","A","X">>,         "absent"),
      Payload(TRUE,  "Hello", TRUE,  <<>>,                    "given"),
      Payload(FALSE, "",      TRUE,  PUSH,                    "absent"),
      Payload(TRUE,  "Hello", FALSE, <<>>,                    "absent") }

\* A validator that lost its membership test: every value passes.
validar_tipo_notificacao_ok_nocheck(v) == Len(v) >= 0

\* NotificacaoPayload.validar_tipo_notificacao: raises ValueError unless the
\* upper-cased value is allowed.
validar_tipo_notificacao_ok(v) == upper(v) \in allowed_types

\* The value the validator returns (the field's value after validation).
validar_tipo_notificacao(v) == upper(v)

\* A payload model whose conteudoMensagem is optional.
NotificacaoPayload_ok_optional(p) ==
    /\ p.hasTipo
    /\ upper(p.tipoNotificacao) \in allowed_types

\* NotificacaoPayload(...): both str fields are required (any str, the
\* empty one included, satisfies `conteudoMensagem: str`), tipoNotificacao
\* must pass its validator.  A failure is FastAPI's 422, raised before the
\* handler body runs.
NotificacaoPayload_ok(p) ==
    /\ p.hasConteudo
    /\ p.hasTipo
    /\ validar_tipo_notificacao_ok(p.tipoNotificacao)

\* mensagemId: Optional[UUID] = Field(default_factory=uuid4): the factory is
\* used only when the key is absent; an explicit null stays None.
mensagemId_of(p, r) ==
    CASE p.mid = "absent" -> uuid4_msg(r)
      [] p.mid = "null"   -> None
      [] OTHER            -> ClientUUID

\* ------------------------------------------------------------------ state
VARIABLES
    db_em_memoria,  \* persistence.db_em_memoria: traceId -> notification record
    connection,     \* ServiceRabbitMQ.connection: 0 is None, else a connection
    channel,        \* ServiceRabbitMQ.channel: 0 is None, else the connection it is on
    openConns,      \* connections currently open at the broker
    nConns,         \* connections opened so far
    life,           \* where lifespan() stands
    req,            \* per HTTP request: position in notificar and its outcome
    declared,       \* queues declared at the broker
    ready,          \* queue name -> messages waiting for delivery
    unacked,        \* queue name -> messages delivered and not yet settled
    consumersUp,    \* the consumers process is running and subscribed
    nExternal,      \* messages published so far by other producers
    returned,       \* messages the broker could not route to any queue
    acked,          \* <<queue, message>> acknowledged by a consumer
    rejected,       \* <<queue, message>> rejected without requeue (discarded)
    results,        \* per consumer invocation: what the store held afterwards
    lastGet,        \* the last status query and its answer
    hist            \* the last direct store call, the last status applied per
                    \* trace, and the last close() call

gateway == <<connection, channel, openConns, nConns>>
broker  == <<declared, ready, unacked, consumersUp, nExternal, returned,
             acked, rejected, results>>
vars    == <<db_em_memoria, connection, channel, openConns, nConns, life, req,
             declared, ready, unacked, consumersUp, nExternal, returned,
             acked, rejected, results, lastGet, hist>>

\* ------------------------------------------------------------ persistence
\* A create that lost its truthiness test: data is stored under whatever
\* data.get("traceId") returned.
notification_status_create_unchecked(db, data) ==
    [t \in DOMAIN db \cup {data.traceId} |->
        IF t = data.traceId THEN data ELSE db[t]]

\* notification_status_create(data): stores data under its traceId when the
\* traceId is truthy (a UUID always is; None is not).
notification_status_create(db, data) ==
    IF data.traceId.kind # "None"
    THEN [t \in DOMAIN db \cup {data.traceId} |->
             IF t = data.traceId THEN data ELSE db[t]]
    ELSE db

\* An update written as an upsert: an unknown trace_id gets a record.
notification_status_update_upsert(db, trace_id, new_status) ==
    [t \in DOMAIN db \cup {trace_id} |->
        IF t = trace_id
        THEN IF t \in DOMAIN db
             THEN [db[t] EXCEPT !.status = new_status]
             ELSE [traceId |-> trace_id, mensagemId |-> None,
                   conteudoMensagem |-> "", tipoNotificacao |-> <<>>,
                   status |-> new_status]
        ELSE db[t]]

\* An update that writes back a store rebuilt from the one record it
\* touched: the other records are lost.
notification_status_update_rebuild(db, trace_id, new_status) ==
    IF trace_id \in DOMAIN db
    THEN [t \in {trace_id} |-> [db[t] EXCEPT !.status = new_status]]
    ELSE db

\* An update that replaces the record by a fresh one holding the status.
notification_status_update_replace(db, trace_id, new_status) ==
    IF trace_id \in DOMAIN db
    THEN [db EXCEPT ![trace_id] =
             [traceId |-> trace_id, mensagemId |-> None,
              conteudoMensagem |-> "", tipoNotificacao |-> <<>>,
              status |-> new_status]]
    ELSE db

\* notification_status_update(trace_id, new_status)
notification_status_update(db, trace_id, new_status) ==
    IF trace_id \in DOMAIN db
    THEN [db EXCEPT ![trace_id].status = new_status]
    ELSE db

\* notification_status_get(trace_id): dict.get, None when absent.
NoRecord == [traceId |-> None, mensagemId |-> None, conteudoMensagem |-> "",
             tipoNotificacao |-> <<>>, status |-> "None"]
notification_status_get(db, trace_id) ==
    IF trace_id \in DOMAIN db THEN db[trace_id] ELSE NoRecord

\* A status endpoint without its not-found test.
get_notificacao_status_no404(db, traceId) ==
    [status_code |-> 200,
     body |-> IF traceId \in DOMAIN db THEN db[traceId]
              ELSE [traceId |-> None, mensagemId |-> None,
                    conteudoMensagem |-> "", tipoNotificacao |-> <<>>,
                    status |-> "None"]]

\* GET /api/notificacao/status/{traceId}: 404 when the lookup is falsy.
get_notificacao_status(db, traceId) ==
    LET status_data == notification_status_get(db, traceId) IN
    IF status_data = NoRecord
    THEN [status_code |-> 404, body |-> NoRecord]
    ELSE [status_code |-> 200, body |-> status_data]

\* ------------------------------------------------------------ queue names
\* consumers.FILAS
FILAS == [entrada |-> "entrada", validacao |-> "validacao",
          retry |-> "retry", dlq |-> "dlq"]
FilaNames == {FILAS.entrada, FILAS.validacao, FILAS.retry, FILAS.dlq}

\* main.notificar: the routing key ingestion publishes with.
fila_entrada == "fila.notificacao.entrada.ELIEZER"

\* ---------------------------------------------------------------- messages
\* json.dumps(rabbitmq_payload).encode(): the bytes of a JSON object.  utf8
\* says whether the bytes decode as UTF-8 (what json.dumps emits always does).
rabbitmq_payload(trace_id, mensagemId, conteudo, tipo) ==
    [traceId |-> str(trace_id), mensagemId |-> str(mensagemId),
     conteudoMensagem |-> conteudo, tipoNotificacao |-> tipo]

Message(obj, id) == [json |-> obj, utf8 |-> TRUE, uid |-> id]

NoMessage == [json |-> rabbitmq_payload(None, None, "", <<>>),
              utf8 |-> TRUE, uid |-> 0]

\* A traceId minted by an earlier run of the API process: no record of it is
\* in the store of this run.
StaleTrace == UUID(200)

\* Bodies other producers may put on a declared queue: a message for the
\* first trace of this run or for a stale one, as well-formed JSON or as
\* bytes that are not UTF-8.
ExternalMessages(id) ==
    { [json |-> rabbitmq_payload(t, ClientUUID, "Hello", EMAIL),
       utf8 |-> u, uid |-> 100 + id] : t \in {uuid4_trace(1), StaleTrace},
                                 u \in BOOLEAN }

\* ------------------------------------------------------------------- Init
NoResponse == [mensagemId |-> JsonNull, traceId |-> JsonNull]

ReqInit == [pc |-> "idle",
            payload |-> Payload(FALSE, "", FALSE, <<>>, "absent"),
            queue |-> "", body |-> NoMessage,
            conn |-> 0, ch |-> 0,
            reconnects |-> 0, publishes |-> 0,
            pm |-> "none", handed |-> FALSE,
            code |-> 0, resp |-> NoResponse]

NoGet == [traceId |-> None, status_code |-> 0, status |-> "None"]

\* Keys a caller may name to the store: the traces of this run and a stale
\* trace.
StoreKeys == {uuid4_trace(r) : r \in Requests} \cup {StaleTrace}

NoCall == [op |-> "none", trace |-> None]

NoClose == [called |-> FALSE, conn |-> 0, before |-> {}, after |-> {},
            outcome |-> "none"]

HistInit == [call |-> NoCall,
             applied |-> [t \in StoreKeys |-> "RECEBIDO"],
             close |-> NoClose]

Init ==
    /\ db_em_memoria = [t \in {} |-> NoRecord]
    /\ connection = 0
    /\ channel = 0
    /\ openConns = {}
    /\ nConns = 0
    /\ life = "init"
    /\ req = [r \in Requests |-> ReqInit]
    /\ declared = {}
    /\ ready = [q \in FilaNames |-> <<>>]
    /\ unacked = [q \in FilaNames |-> <<>>]
    /\ consumersUp = FALSE
    /\ nExternal = 0
    /\ returned = {}
    /\ acked = {}
    /\ rejected = {}
    /\ results = {}
    /\ lastGet = NoGet
    /\ hist = HistInit

\* ----------------------------------------------------------------- gateway
\* aio_pika.connect_robust(url) returned a connection: self.connection is
\* assigned (rabbitmq_service.py line 51).
connect_robust_ok ==
    /\ nConns < MaxConns
    /\ nConns' = nConns + 1
    /\ connection' = nConns + 1
    /\ openConns' = openConns \cup {nConns + 1}
    /\ UNCHANGED channel

\* self.connection.channel() returned on connection c: self.channel is
\* assigned (line 52).
channel_ok(c) ==
    /\ c \in openConns
    /\ channel' = c
    /\ UNCHANGED <<connection, openConns, nConns>>

\* ServiceRabbitMQ.close(): closes the referenced connection when there is
\* one and it is not closed; self.connection and self.channel keep their
\* values.
\* A close() without the `self.connection and` and `is_closed` tests.
close_outcome_unguarded(conn, open) ==
    CASE conn = 0 -> "raised"           \* None has no close()
      [] OTHER    -> "closed"

\* The branch close() takes (lines 66-68).
close_outcome(conn, open) ==
    CASE conn = 0       -> "return"     \* `self.connection and ...` is falsy
      [] conn \notin open -> "return"    \* is_closed
      [] OTHER          -> "closed"     \* await self.connection.close()

close ==
    /\ openConns' = IF close_outcome(connection, openConns) = "closed"
                    THEN openConns \ {connection}
                    ELSE openConns
    /\ UNCHANGED <<connection, channel, nConns>>

\* channel.default_exchange.publish(message, routing_key=...) accepted by
\* the broker: the default exchange routes to the queue named by the routing
\* key; with no such queue the message is returned to the publisher, which
\* ignores the result.
default_exchange_publish(routing_key, message) ==
    IF routing_key \in declared
    THEN /\ ready' = [ready EXCEPT ![routing_key] = Append(@, message)]
         /\ UNCHANGED returned
    ELSE /\ returned' = returned \cup {message}
         /\ UNCHANGED ready

\* ---------------------------------------------------------------- lifespan
\* lifespan(): startup awaits service_rabbitmq.connect(), shutdown awaits
\* service_rabbitmq.close().  connect() raises ConnectionError when either
\* await fails, which aborts the startup.
lifespan_connect ==
    /\ life = "init"
    /\ \A r \in Requests : req[r].pc \in {"idle", "done"}
    /\ \/ connect_robust_ok /\ life' = "channel"
       \/ life' = "failed" /\ UNCHANGED gateway
    /\ UNCHANGED <<db_em_memoria, req, broker, lastGet>>
    /\ UNCHANGED hist

lifespan_channel ==
    /\ life = "channel"
    /\ \/ channel_ok(connection) /\ life' = "running"
       \/ life' = "failed" /\ UNCHANGED gateway
    /\ UNCHANGED <<db_em_memoria, req, broker, lastGet>>
    /\ UNCHANGED hist

lifespan_shutdown ==
    /\ life = "running"
    /\ \A r \in Requests : req[r].pc \in {"idle", "done"}
    /\ close
    /\ life' = "stopped"
    /\ UNCHANGED <<db_em_memoria, req, broker, lastGet>>
    /\ UNCHANGED hist

\* --------------------------------------------------------------- ingestion
\* The record notificar builds (main.py lines 55-61).
notificacao_status(trace_id, mensagemId, p) ==
    [traceId |-> trace_id,
     mensagemId |-> mensagemId,
     conteudoMensagem |-> p.conteudoMensagem,
     tipoNotificacao |-> validar_tipo_notificacao(p.tipoNotificacao),
     status |-> "RECEBIDO"]

\* The store after the handler's first stretch: the record is created before
\* anything is published (line 63).
notificar_store(db, r, p) ==
    notification_status_create(
        db, notificacao_status(uuid4_trace(r), mensagemId_of(p, r), p))

\* The message body handed to publish_message (lines 65-73).
notificar_body(r, p) ==
    Message(rabbitmq_payload(uuid4_trace(r), mensagemId_of(p, r),
                             p.conteudoMensagem,
                             validar_tipo_notificacao(p.tipoNotificacao)), r)

\* The 202 body (lines 75-79), JSON-encoded by FastAPI.
notificar_response(r, p) ==
    [mensagemId |-> jsonable(mensagemId_of(p, r)),
     traceId |-> jsonable(uuid4_trace(r))]

\* POST /api/notificar arrives with payload p.  FastAPI validates it (422 on
\* failure, before the handler body); the handler then runs up to its first
\* suspension point inside publish_message: with no channel it awaits
\* connect_robust, otherwise it awaits the publish on the channel it holds.
notificar(r, p) ==
    /\ req[r].pc = "idle"
    /\ \A q \in Requests : q < r => req[q].pc # "idle"
    /\ life # "channel"
    /\ IF ~NotificacaoPayload_ok(p)
       THEN /\ req' = [req EXCEPT ![r].pc = "done", ![r].payload = p,
                                  ![r].code = 422]
            /\ UNCHANGED db_em_memoria
       ELSE /\ db_em_memoria' = notificar_store(db_em_memoria, r, p)
            /\ req' = [req EXCEPT
                 ![r].payload = p,
                 ![r].queue = fila_entrada,
                 ![r].body = notificar_body(r, p),
                 ![r].resp = notificar_response(r, p),
                 ![r].publishes = @ + 1,
                 ![r].reconnects = IF channel = 0 THEN @ + 1 ELSE @,
                 ![r].ch = channel,
                 ![r].pc = IF channel = 0 THEN "connect_robust" ELSE "publish"]
    /\ UNCHANGED <<gateway, life, broker, lastGet>>
    /\ UNCHANGED hist

\* publish_message -> connect(): the await of connect_robust ends.  On
\* failure connect() raises ConnectionError, which nothing between it and
\* FastAPI catches: the request ends as a 500.
publish_message_connect(r) ==
    /\ req[r].pc = "connect_robust"
    /\ \/ /\ connect_robust_ok
          /\ req' = [req EXCEPT ![r].pc = "channel", ![r].conn = nConns + 1]
       \/ /\ req' = [req EXCEPT ![r].pc = "done", ![r].pm = "raised",
                                ![r].code = 500]
          /\ UNCHANGED gateway
    /\ UNCHANGED <<db_em_memoria, life, broker, lastGet>>
    /\ UNCHANGED hist

\* publish_message -> connect(): the await of connection.channel() ends.
\* On success connect() returns, the channel check of line 85 passes and the
\* publish starts on self.channel; on failure ConnectionError propagates.
publish_message_channel(r) ==
    /\ req[r].pc = "channel"
    /\ \/ /\ channel_ok(req[r].conn)
          /\ req' = [req EXCEPT ![r].pc = "publish", ![r].ch = req[r].conn]
       \/ /\ req' = [req EXCEPT ![r].pc = "done", ![r].pm = "raised",
                                ![r].code = 500]
          /\ UNCHANGED gateway
    /\ UNCHANGED <<db_em_memoria, life, broker, lastGet>>
    /\ UNCHANGED hist

\* publish_message: the await of default_exchange.publish ends.  The broker
\* accepts the message only on an open channel; any exception is caught and
\* printed (lines 95-96), publish_message returns None and notificar returns
\* its 202 body.
publish_message_publish(r) ==
    /\ req[r].pc = "publish"
    /\ \/ /\ req[r].ch \in openConns
          /\ default_exchange_publish(req[r].queue, req[r].body)
          /\ req' = [req EXCEPT ![r].pc = "done", ![r].pm = "returned",
                                ![r].handed = TRUE,
                                ![r].code = 202]
       \/ /\ req' = [req EXCEPT ![r].pc = "done", ![r].pm = "returned",
                                ![r].code = 202]
          /\ UNCHANGED <<ready, returned>>
    /\ UNCHANGED <<db_em_memoria, gateway, life, declared, unacked,
                   consumersUp, nExternal, acked, rejected, results, lastGet>>
    /\ UNCHANGED hist

\* GET /api/notificacao/status/{traceId}
ConsumerRan == acked # {} \/ rejected # {}

TraceIds == {uuid4_trace(r) : r \in Requests} \cup {ClientUUID}

status_query(traceId) ==
    /\ LET a == get_notificacao_status(db_em_memoria, traceId) IN
       lastGet' = [traceId |-> traceId, status_code |-> a.status_code,
                   status |-> a.body.status]
    /\ UNCHANGED <<db_em_memoria, gateway, life, req, broker>>
    /\ UNCHANGED hist

\* --------------------------------------------------------------- consumers
\* start_consumers(): connects, declares the four durable queues and
\* subscribes one callback to each.
start_consumers ==
    /\ ~consumersUp
    /\ consumersUp' = TRUE
    /\ declared' = declared \cup FilaNames
    /\ UNCHANGED <<db_em_memoria, gateway, life, req, ready, unacked,
                   nExternal, returned, acked, rejected, results, lastGet>>
    /\ UNCHANGED hist

\* traceId named by a message body, as a store key.
TraceOf(message) == UUID(message.json.traceId.n)

\* Another producer on the same broker publishes to a declared queue.  A
\* message can only name a trace of this run once notificar has minted it.
ExternalPublish(q, m) ==
    /\ nExternal < MaxExternal
    /\ q \in declared
    /\ TraceOf(m) = StaleTrace \/ TraceOf(m) \in DOMAIN db_em_memoria
    /\ nExternal' = nExternal + 1
    /\ ready' = [ready EXCEPT ![q] = Append(@, m)]
    /\ UNCHANGED <<db_em_memoria, gateway, life, req, declared, unacked,
                   consumersUp, returned, acked, rejected, results, lastGet>>
    /\ UNCHANGED hist

\* The broker delivers the head of a queue to its subscribed consumer; the
\* message stays unacknowledged until the callback settles it.
Deliver(q) ==
    /\ consumersUp
    /\ ready[q] # <<>>
    /\ unacked' = [unacked EXCEPT ![q] = Append(@, Head(ready[q]))]
    /\ ready' = [ready EXCEPT ![q] = Tail(@)]
    /\ UNCHANGED <<db_em_memoria, gateway, life, req, declared, consumersUp,
                   nExternal, returned, acked, rejected, results, lastGet>>
    /\ UNCHANGED hist

\* The consumers process dies: the broker requeues what it had not settled.
ConsumerCrash ==
    /\ consumersUp
    /\ consumersUp' = FALSE
    /\ ready' = [q \in FilaNames |-> unacked[q] \o ready[q]]
    /\ unacked' = [q \in FilaNames |-> <<>>]
    /\ UNCHANGED <<db_em_memoria, gateway, life, req, declared, nExternal,
                   returned, acked, rejected, results, lastGet>>
    /\ UNCHANGED hist

RemoveAt(seq, i) == SubSeq(seq, 1, i - 1) \o SubSeq(seq, i + 1, Len(seq))

\* message.body.decode() inside the callback: raises UnicodeDecodeError on
\* bytes that are not UTF-8.
decode_ok(message) == message.utf8

\* A callback that advances the record's status from what it finds there.
process_message_db_advance(fila, message, db) ==
    notification_status_update(
        db, TraceOf(message),
        IF notification_status_get(db, TraceOf(message)).status = "RECEBIDO"
        THEN "PROCESSADO" ELSE "DUPLICADO")

\* What a callback does to the status store: the four callbacks only print
\* the decoded body; none reads or writes db_em_memoria.
process_message_db(fila, message, db) == db

\* One run of a callback under `async with message.process()`: the body is
\* decoded and printed; leaving the block normally acknowledges the message,
\* leaving it by an exception rejects it with requeue=False (the defaults of
\* IncomingMessage.process), which discards it.
process_message(fila, i) ==
    /\ consumersUp
    /\ i \in 1..Len(unacked[fila])
    /\ LET message == unacked[fila][i]
           db == IF decode_ok(message)
                 THEN process_message_db(fila, message, db_em_memoria)
                 ELSE db_em_memoria
           nth == Cardinality({x \in results : /\ x.fila = fila
                                                /\ x.json = message.json
                                                /\ x.utf8 = message.utf8})
       IN /\ db_em_memoria' = db
          /\ unacked' = [unacked EXCEPT ![fila] = RemoveAt(@, i)]
          /\ IF decode_ok(message)
             THEN acked' = acked \cup {<<fila, message>>} /\ UNCHANGED rejected
             ELSE rejected' = rejected \cup {<<fila, message>>} /\ UNCHANGED acked
          /\ results' = results \cup
                 {[fila |-> fila, json |-> message.json, utf8 |-> message.utf8,
                   nth |-> nth + 1,
                   status |-> notification_status_get(db, TraceOf(message)).status]}
    /\ UNCHANGED <<gateway, life, req, declared, ready, consumersUp,
                   nExternal, returned, lastGet>>
    /\ UNCHANGED hist

entrada_process_message   == \E i \in 1..MaxExternal : process_message(FILAS.entrada, i)
validacao_process_message == \E i \in 1..MaxExternal : process_message(FILAS.validacao, i)
retry_process_message     == \E i \in 1..MaxExternal : process_message(FILAS.retry, i)
dlq_process_message       == \E i \in 1..MaxExternal : process_message(FILAS.dlq, i)

\* ------------------------------------------------------------------- Next
\* The API process (main.py): lifespan, the two endpoints, and the broker
\* as its environment (the consumers process declaring the queues).
Next ==
    \/ lifespan_connect
    \/ lifespan_channel
    \/ lifespan_shutdown
    \/ \E r \in Requests, p \in Payloads : notificar(r, p)
    \/ \E r \in Requests : publish_message_connect(r)
    \/ \E r \in Requests : publish_message_channel(r)
    \/ \E r \in Requests : publish_message_publish(r)
    \/ start_consumers

Spec == Init /\ [][Next]_vars

\* The API process serving one ingestion and any number of status queries.
NextQuery ==
    \/ lifespan_connect
    \/ lifespan_channel
    \/ lifespan_shutdown
    \/ \E p \in Payloads : notificar(1, p)
    \/ publish_message_connect(1)
    \/ publish_message_channel(1)
    \/ publish_message_publish(1)
    \/ \E t \in TraceIds : status_query(t)

SpecQuery == Init /\ [][NextQuery]_vars

\* The consumers process (consumers.py) with the broker, other producers on
\* its queues, and one ingestion by the API process served without lifespan.
PipelinePayloads ==
    { Payload(TRUE, "Hello", TRUE, <<"e","m","a","i","l">>, "absent") }

NextPipeline ==
    \/ \E p \in PipelinePayloads : notificar(1, p)
    \/ publish_message_connect(1)
    \/ publish_message_channel(1)
    \/ publish_message_publish(1)
    \/ start_consumers
    \/ \E q \in FilaNames, m \in ExternalMessages(nExternal + 1) : ExternalPublish(q, m)
    \/ \E q \in FilaNames : Deliver(q)
    \/ ConsumerCrash
    \/ entrada_process_message
    \/ validacao_process_message
    \/ retry_process_message
    \/ dlq_process_message

SpecPipeline == Init /\ [][NextPipeline]_vars

\* ------------------------------------------------- direct calls of the API
\* Status values the code documents (main.py line 60, persistence.py line
\* 34) and the dead-letter value of the design.
StatusVocabulary == {"RECEBIDO", "PROCESSADO_INTERMEDIARIO", "FAILED_DLQ"}

\* A caller on the event loop invokes notification_status_update: a
\* synchronous function, so the membership test and the write are one step.
status_update(trace_id, new_status) ==
    /\ db_em_memoria' =
           notification_status_update(db_em_memoria, trace_id, new_status)
    /\ hist' = [hist EXCEPT
           !.call = [op |-> "update", trace |-> trace_id],
           !.applied = IF trace_id \in DOMAIN db_em_memoria'
                       THEN [@ EXCEPT ![trace_id] = new_status] ELSE @]
    /\ UNCHANGED <<gateway, life, req, broker, lastGet>>

\* A caller invokes notification_status_create with data that carries no
\* traceId: data.get("traceId") is None.
DataWithoutTrace == [traceId |-> None, mensagemId |-> ClientUUID,
                     conteudoMensagem |-> "Hello", tipoNotificacao |-> EMAIL,
                     status |-> "RECEBIDO"]

status_create_without_trace ==
    /\ db_em_memoria' = notification_status_create(db_em_memoria, DataWithoutTrace)
    /\ hist' = [hist EXCEPT
           !.call = [op |-> "create", trace |-> None]]
    /\ UNCHANGED <<gateway, life, req, broker, lastGet>>

\* service_rabbitmq.close() invoked by any caller, in any gateway state.
close_call ==
    /\ close
    /\ hist' = [hist EXCEPT
           !.close = [called |-> TRUE, conn |-> connection,
                      before |-> openConns, after |-> openConns',
                      outcome |-> close_outcome(connection, openConns)]]
    /\ UNCHANGED <<db_em_memoria, life, req, broker, lastGet>>

\* The status store under concurrent ingestions and direct store calls.
StorePayloads ==
    { Payload(TRUE, "Hi",    TRUE, <<"p","u","s","h">>,     "null"),
      Payload(TRUE, "Hello", TRUE, <<"F","A","X">>,         "absent") }

NextStore ==
    \/ \E r \in Requests, p \in StorePayloads : notificar(r, p)
    \/ \E r \in Requests : publish_message_connect(r)
    \/ \E r \in Requests : publish_message_channel(r)
    \/ \E r \in Requests : publish_message_publish(r)
    \/ \E t \in StoreKeys, st \in StatusVocabulary : status_update(t, st)
    \/ status_create_without_trace

SpecStore == Init /\ [][NextStore]_vars

\* The status endpoint after one ingestion and any updates.
NextStatus ==
    \/ \E p \in StorePayloads : notificar(1, p)
    \/ publish_message_connect(1)
    \/ publish_message_channel(1)
    \/ publish_message_publish(1)
    \/ \E t \in StoreKeys, st \in StatusVocabulary : status_update(t, st)
    \/ \E t \in StoreKeys : status_query(t)

SpecStatus == Init /\ [][NextStatus]_vars

\* The gateway through startup, one ingestion, shutdown and direct close().
NextGateway ==
    \/ lifespan_connect
    \/ lifespan_channel
    \/ lifespan_shutdown
    \/ \E p \in PipelinePayloads : notificar(1, p)
    \/ publish_message_connect(1)
    \/ publish_message_channel(1)
    \/ publish_message_publish(1)
    \/ close_call

SpecGateway == Init /\ [][NextGateway]_vars

\* ================================================================= claims
Started(r)  == req[r].pc # "idle"
Finished(r) == req[r].pc = "done"

\* Messages the broker holds or has settled, and those it returned.
Held(q)   == {ready[q][i] : i \in 1..Len(ready[q])}
             \cup {unacked[q][i] : i \in 1..Len(unacked[q])}
Settled(q) == {x[2] : x \in {y \in acked \cup rejected : y[1] = q}}
BrokerMessages ==
    returned \cup UNION {Held(q) \cup Settled(q) : q \in FilaNames}

\* Nothing of request r reached the broker, and publish_message was not called.
NothingPublished(r) ==
    /\ req[r].publishes = 0
    /\ \A m \in BrokerMessages : m.uid # r

NoRecordOf(r) == uuid4_trace(r) \notin DOMAIN db_em_memoria

\* s and t are equal up to the case of their letters.
CaseInsensitiveEq(s, t) ==
    /\ Len(s) = Len(t)
    /\ \A i \in 1..Len(s) : UpperOf[s[i]] = UpperOf[t[i]]

TipoAllowed(p) ==
    /\ p.hasTipo
    /\ \E a \in {EMAIL, SMS, PUSH} : CaseInsensitiveEq(p.tipoNotificacao, a)

ValidPayload(p) ==
    /\ p.hasConteudo /\ p.conteudoMensagem # ""
    /\ TipoAllowed(p)

\* C1: for every valid payload and in every gateway state, a finished
\* ingestion answered 202 with the request's traceId, and a status lookup of
\* that traceId before any consumer step answers 200 with status RECEBIDO.
C1_AcceptedAndReceived ==
    \A r \in Requests :
        (Finished(r) /\ ValidPayload(req[r].payload)) =>
            /\ req[r].code = 202
            /\ req[r].resp.traceId = jsonable(uuid4_trace(r))
            /\ ~ConsumerRan =>
                 LET a == get_notificacao_status(db_em_memoria, uuid4_trace(r))
                 IN a.status_code = 200 /\ a.body.status = "RECEBIDO"

\* C2: an ingestion whose message was not handed to the broker (the publish
\* raised, or the reconnect failed) ends with a 5xx, never with 202.
C2_PublishFailureIs5xx ==
    \A r \in Requests :
        (Finished(r) /\ req[r].publishes > 0 /\ ~req[r].handed) =>
            req[r].code >= 500

\* C3: a request whose typeNotification is not, case-insensitively, one of
\* EMAIL, SMS, PUSH is rejected with 422 before any state is created: no
\* record of it is in the store, every record in the store belongs to a
\* request whose type is allowed, and nothing of it is published.
C3_InvalidTypeRejected ==
    /\ \A r \in Requests :
          (Started(r) /\ ~TipoAllowed(req[r].payload)) =>
              /\ req[r].code = 422
              /\ NoRecordOf(r)
              /\ NothingPublished(r)
    /\ \A t \in DOMAIN db_em_memoria :
          \E r \in Requests : /\ t = uuid4_trace(r)
                              /\ Started(r)
                              /\ TipoAllowed(req[r].payload)

C3_Witness ==
    \E r \in Requests :
        /\ Finished(r)
        /\ req[r].payload.hasTipo /\ req[r].payload.hasConteudo
        /\ req[r].payload.tipoNotificacao = <<"F","A","X">>
        /\ req[r].code = 422
        /\ \E q \in Requests : q # r /\ uuid4_trace(q) \in DOMAIN db_em_memoria

C5_PublishedReachesEntry ==
    \A r \in Requests :
        req[r].handed =>
            req[r].body \in Held(FILAS.entrada) \cup Settled(FILAS.entrada)

\* C6: a message whose validation failed and that is no longer anywhere in
\* the pipeline has left its record in the dead-letter terminal status.
DeadLetterStatus == "FAILED_DLQ"

InPipeline(t) ==
    \E q \in FilaNames : \E m \in Held(q) : TraceOf(m) = t

C6_ExhaustedEndsDeadLetter ==
    \A x \in rejected :
        (/\ x[1] = FILAS.validacao
         /\ TraceOf(x[2]) \in DOMAIN db_em_memoria
         /\ ~InPipeline(TraceOf(x[2]))) =>
            db_em_memoria[TraceOf(x[2])].status = DeadLetterStatus

\* C7: a publish_message that found no channel attempted exactly one
\* reconnect and, when that failed, returned to its caller: no exception
\* left publish_message.
C7_ReconnectFailureReturned ==
    \A r \in Requests :
        req[r].reconnects > 0 =>
            /\ req[r].reconnects = 1
            /\ req[r].pm # "raised"

\* C8: no message leaves the pipeline without having been processed
\* successfully: every message put on a queue is still ready, is
\* unacknowledged, or was acknowledged after its callback succeeded.
C8_NoMessageLost ==
    \A n \in 1..nExternal :
        \E q \in FilaNames :
            \E m \in Held(q) \cup {x[2] : x \in {y \in acked : y[1] = q}} :
                m.uid = 100 + n /\ (<<q, m>> \in acked => decode_ok(m))

\* C9: an accepted ingestion awaited publish_message exactly once, addressed
\* to the entry queue, with a body whose content and upper-cased type are
\* the request's and whose traceId and messageId are those of the stored
\* record and of the response.
C9_PublishedBodyMatches ==
    \A r \in Requests :
        req[r].code = 202 =>
            /\ req[r].publishes = 1
            /\ req[r].queue = FILAS.entrada
            /\ req[r].body.json.conteudoMensagem = req[r].payload.conteudoMensagem
            /\ req[r].body.json.tipoNotificacao = upper(req[r].payload.tipoNotificacao)
            /\ req[r].body.json.traceId = req[r].resp.traceId
            /\ req[r].body.json.mensagemId = req[r].resp.mensagemId
            /\ ~NoRecordOf(r)
            /\ req[r].body.json.traceId =
                   jsonable(db_em_memoria[uuid4_trace(r)].traceId)
            /\ req[r].body.json.mensagemId =
                   jsonable(db_em_memoria[uuid4_trace(r)].mensagemId)

\* C10: delivering the same body to the same consumer again leaves the
\* record's status as the first delivery left it.
C10_DuplicateDeliveryIdempotent ==
    \A a, b \in results :
        (a.fila = b.fila /\ a.json = b.json /\ a.utf8 = b.utf8) =>
            a.status = b.status

C10_Witness ==
    \E a, b \in results :
        /\ a.fila = b.fila /\ a.json = b.json /\ a.utf8 = b.utf8
        /\ a.utf8
        /\ a.nth = 1 /\ b.nth = 2
        /\ a.status = "RECEBIDO"

\* C14: a message the entry consumer processed successfully has had its
\* record's status advanced and has been republished to the validation
\* queue; one whose processing failed has been republished to the retry
\* queue (with its retry counter incremented).
RepublishedTo(q, m) ==
    \E n \in Held(q) \cup Settled(q) : n.json = m.json

C14_EntryRoutesOnward ==
    /\ \A x \in acked :
          x[1] = FILAS.entrada =>
              /\ RepublishedTo(FILAS.validacao, x[2])
              /\ TraceOf(x[2]) \in DOMAIN db_em_memoria =>
                     db_em_memoria[TraceOf(x[2])].status # "RECEBIDO"
    /\ \A x \in rejected :
          x[1] = FILAS.entrada => RepublishedTo(FILAS.retry, x[2])

\* C15: every record a finished ingestion left in status RECEBIDO belongs to
\* a message that was handed to the broker.
C15_NoStrandedReceived ==
    \A r \in Requests :
        (/\ Finished(r)
         /\ ~NoRecordOf(r)
         /\ db_em_memoria[uuid4_trace(r)].status = "RECEBIDO") =>
            req[r].handed

\* C18: once the application's shutdown has completed, no connection the
\* gateway opened is still open.
C18_ShutdownClosesAll ==
    life = "stopped" => openConns = {}

\* C20: every connection the gateway has opened and not closed is the one
\* self.connection refers to.
C20_SingleOpenConnection ==
    \A c \in openConns : c = connection

\* The traces ingestion has created so far.
Created(t) ==
    \E r \in Requests : /\ t = uuid4_trace(r)
                        /\ Started(r)
                        /\ req[r].code # 422

RequestOf(t) == CHOOSE r \in Requests : t = uuid4_trace(r)

\* C11: a status update for a traceId with no entry in the store creates no
\* record and leaves every existing record as it was.
C11_UpdateUnknownIsNoOp ==
    [][\A t \in StoreKeys \ DOMAIN db_em_memoria :
          (/\ hist'.call = [op |-> "update", trace |-> t]
           /\ \E st \in StatusVocabulary : status_update(t, st)) =>
              db_em_memoria' = db_em_memoria]_vars

C11_Witness ==
    /\ hist.call.op = "update"
    /\ hist.call.trace \notin DOMAIN db_em_memoria
    /\ DOMAIN db_em_memoria # {}

\* C12: after any ingestions and updates, the status query of a traceId
\* answers 200 with the full current record (the ingested fields and the
\* last status applied) exactly when an earlier ingestion created that
\* traceId, and 404 for every other traceId.
C12_QueryFoundIffCreated ==
    /\ \A t \in StoreKeys :
          LET a == get_notificacao_status(db_em_memoria, t) IN
          IF Created(t)
          THEN /\ a.status_code = 200
               /\ a.body.traceId = t
               /\ a.body.mensagemId =
                      mensagemId_of(req[RequestOf(t)].payload, RequestOf(t))
               /\ a.body.conteudoMensagem =
                      req[RequestOf(t)].payload.conteudoMensagem
               /\ a.body.tipoNotificacao =
                      upper(req[RequestOf(t)].payload.tipoNotificacao)
               /\ a.body.status = hist.applied[t]
          ELSE a.status_code = 404
    /\ lastGet.status_code = 200 => Created(lastGet.traceId)

C12_Witness ==
    /\ lastGet.status_code = 200
    /\ lastGet.status = "FAILED_DLQ"
    /\ get_notificacao_status(db_em_memoria, StaleTrace).status_code = 404

\* C13: close() does not fail on a gateway that was never connected or whose
\* connection is already closed and changes nothing there; after close() the
\* referenced connection is closed; a second close() right after changes
\* nothing more.
C13_CloseTolerantIdempotent ==
    hist.close.called =>
        /\ hist.close.outcome # "raised"
        /\ (hist.close.conn = 0 \/ hist.close.conn \notin hist.close.before) =>
               hist.close.after = hist.close.before
        /\ hist.close.conn \notin hist.close.after
        /\ close_outcome(hist.close.conn, hist.close.after) = "return"

C13_Witness ==
    /\ hist.close.called
    /\ hist.close.conn # 0
    /\ hist.close.conn \notin hist.close.before
    /\ hist.close.outcome = "return"

\* C16: under every interleaving of ingestions and updates no record
\* disappears and no update is lost: every created trace has its record, and
\* its status is the value of the last write applied to it.
C16_LastUpdateWins ==
    /\ \A t \in StoreKeys :
          Created(t) => /\ t \in DOMAIN db_em_memoria
                        /\ db_em_memoria[t].status = hist.applied[t]
    /\ \A t \in DOMAIN db_em_memoria : Created(t)

C16_Witness ==
    \E r, q \in Requests :
        /\ r # q
        /\ req[r].pc \notin {"idle", "done"}
        /\ req[q].pc \notin {"idle", "done"}
        /\ db_em_memoria[uuid4_trace(r)].status = "FAILED_DLQ"
        /\ db_em_memoria[uuid4_trace(q)].status = "PROCESSADO_INTERMEDIARIO"

\* C17: no step removes a record or changes a record's traceId, messageId,
\* contentMessage or typeNotification, and a status update leaves every
\* record other than the one it names unchanged.
C17_UpdateTouchesOnlyStatus ==
    [][/\ \A t \in DOMAIN db_em_memoria :
             /\ t \in DOMAIN db_em_memoria'
             /\ db_em_memoria'[t].traceId = db_em_memoria[t].traceId
             /\ db_em_memoria'[t].mensagemId = db_em_memoria[t].mensagemId
             /\ db_em_memoria'[t].conteudoMensagem = db_em_memoria[t].conteudoMensagem
             /\ db_em_memoria'[t].tipoNotificacao = db_em_memoria[t].tipoNotificacao
       /\ \A t \in StoreKeys :
             (/\ hist'.call = [op |-> "update", trace |-> t]
              /\ \E st \in StatusVocabulary : status_update(t, st)) =>
                 /\ DOMAIN db_em_memoria' = DOMAIN db_em_memoria
                 /\ \A u \in DOMAIN db_em_memoria \ {t} :
                        db_em_memoria'[u] = db_em_memoria[u]]_vars

C17_Witness ==
    /\ hist.call.op = "update"
    /\ hist.call.trace \in DOMAIN db_em_memoria
    /\ db_em_memoria[hist.call.trace].status = "PROCESSADO_INTERMEDIARIO"
    /\ db_em_memoria[hist.call.trace].conteudoMensagem = "Hi"
    /\ \E u \in DOMAIN db_em_memoria :
          u # hist.call.trace /\ db_em_memoria[u].status = "RECEBIDO"

\* C19: every record is stored under a key that is its own traceId, a UUID,
\* with a status of the vocabulary, and a create call whose data has no
\* traceId stores nothing.
C19_KeyedByOwnTrace ==
    /\ \A t \in DOMAIN db_em_memoria :
          /\ t.kind = "UUID"
          /\ db_em_memoria[t].traceId = t
          /\ db_em_memoria[t].status \in StatusVocabulary
          /\ Created(t)
    /\ \A t \in DOMAIN db_em_memoria : db_em_memoria[t] # DataWithoutTrace

C19_Witness ==
    /\ hist.call.op = "create"
    /\ \E t \in DOMAIN db_em_memoria : db_em_memoria[t].status = "FAILED_DLQ"

====
